---- MODULE Spec2Model ----
(***************************************************************************)
(* Model of lamini's polling streaming session                             *)
(* (lamini/api/streaming_completion.py) and of the GenerationNode          *)
(* pipeline (lamini/generation/generation_node.py).                        *)
(*                                                                         *)
(* Python values are modelled as follows.  Scalars (strings, tokens,       *)
(* numbers used only as opaque payload) are TLA+ strings and Python's None *)
(* in a scalar slot is the string None below.  A dict is a function whose  *)
(* DOMAIN is its key set, so an absent key and a key bound to None are     *)
(* different things.  A list is a sequence.                                *)
(***************************************************************************)
EXTENDS Integers, Sequences, FiniteSets, TLC

None == "None"

\* ---------------------------------------------------------------- bounds
\* number of next() calls a consumer makes on a session
MaxCalls == 6
\* largest max_errors passed to a directly constructed session
MaxErrors == 2

\* ------------------------------------------------- streaming: state
VARIABLES
    mode,        \* "create": sessions made by create()/async_create();
                 \* "direct": the two classes constructed with equal arguments
    sync,        \* fields of the StreamingCompletionObject
    asyn,        \* fields of the AsyncStreamingCompletionObject
    sync_pc,     \* where the consumer's call of StreamingCompletionObject.next()
                 \* stands: "idle" (no call under way), "sleep" (in time.sleep,
                 \* past the done_streaming test), "flight" (request sent,
                 \* waiting for the response)
    asyn_pc,     \* the same for AsyncStreamingCompletionObject.next(): "sleep"
                 \* is await asyncio.sleep, "flight" await make_async_web_request
    sync_ret,    \* how the last finished StreamingCompletionObject.next() ended
    asyn_ret,    \* how the last finished AsyncStreamingCompletionObject.next() ended
    sync_nsent,  \* requests the blocking session has sent
    asyn_nsent,  \* requests the cooperative session has sent
    sync_wire,   \* <<payload>> of the last request the blocking session sent
    asyn_wire,   \* <<payload>> of the last request the cooperative session sent
    ncalls,      \* next() calls that have finished so far on each session
    learned,     \* first non-None server token a successful poll delivered
    latest,      \* most recent non-None server token a response delivered
    all_failed,  \* every exchange so far ended in a failure
    last_failed  \* the last finished call made an exchange and it failed

svars == <<mode, sync, asyn, sync_pc, asyn_pc, sync_ret, asyn_ret, sync_nsent,
           asyn_nsent, sync_wire, asyn_wire, ncalls, learned, latest,
           all_failed, last_failed>>

\* ------------------------------------------------- generation node: state
VARIABLES
    preprocess,   \* the node's preprocess hook, or NoHook
    postprocess,  \* the node's postprocess hook, or NoHook
    input,        \* the prompt sequence handed to the node
    tp_idx,       \* items transform_prompt has pulled from input
    tp_pc,        \* where transform_prompt stands
    tp_gen,       \* values the preprocess generator has yet to produce
    transformed,  \* items transform_prompt has yielded
    q_idx,        \* items the inference queue has taken
    q_pc,         \* where the inference queue stands
    generated,    \* items the inference queue has returned
    pr_idx,       \* items process_results has pulled
    pr_pc,        \* where process_results stands
    pr_gen,       \* values the postprocess generator has yet to produce
    results,      \* items process_results has yielded
    tp_call,      \* the last preprocess call: item, result, output length before
    pr_call,      \* the last postprocess call: item, result, output length before
    tp_req,       \* an __anext__ of transform_prompt is awaited by its consumer
    pr_req        \* an __anext__ of process_results is awaited by its consumer

nvars == <<preprocess, postprocess, input, tp_idx, tp_pc, tp_gen, transformed,
           q_idx, q_pc, generated, pr_idx, pr_pc, pr_gen, results, tp_call,
           pr_call, tp_req, pr_req>>

\* ------------------------------------------------- request maps: state
VARIABLES
    req_args,       \* the arguments a request map is built from
    req_streaming,  \* <<map>> built by StreamingCompletion.make_llm_req_map
    req_node        \* <<map>> built by GenerationNode.make_llm_req_map

rvars == <<req_args, req_streaming, req_node>>

\* ------------------------------------------------- shared session: state
VARIABLES
    task_obj,     \* the session the callers share: "sync", a
                  \* StreamingCompletionObject called from several threads, or
                  \* "asyn", an AsyncStreamingCompletionObject called from
                  \* several tasks of one event loop
    task_pc,      \* where each thread or task stands in next()
    overlapped    \* some next() call was made while another was still running

tvars == <<task_obj, task_pc, overlapped>>

\* ------------------------------------------------- consumer loop: state
VARIABLES
    lp_target,     \* the session this consumer iterates: "sync" or "asyn"
    lp_retries,    \* the consumer calls next() again after a propagated failure
    lp_completed,  \* some successful poll reported completion
    lp_nfailed,    \* polls of the session that failed so far
    lp_raised,     \* some earlier call propagated a failure
    lp_fragment,   \* data[0] of the last poll's response, None if the poll failed
    lp_status,     \* what status[0] of the last poll's response reported:
                   \* "done" or "more", None if the poll failed
    lp_nyield,     \* values the loop has received from next()
    lp_last,       \* the last value the loop received
    lp_between     \* some poll failed right after a successful poll that
                   \* itself came after a failed poll

lvars == <<lp_target, lp_retries, lp_completed, lp_nfailed, lp_raised,
           lp_fragment, lp_status, lp_nyield, lp_last, lp_between>>

vars == <<svars, nvars, rvars, tvars, lvars>>

\* ------------------------------------------------- streaming: inputs
Tokens == {"s1", "s2"}
Fragments == {"d1", "d2"}
RespKeys == {"server", "status", "data"}

\* dict update d[k] = v
SetKey(d, k, v) == [x \in DOMAIN d \cup {k} |-> IF x = k THEN v ELSE d[x]]

\* the response mappings make_web_request can return: any of the three keys
\* may be missing, status and data may be empty sequences
EmptyDict == [k \in {} |-> None]

WithOptionalKey(S, k, V) == S \cup {SetKey(r, k, v) : r \in S, v \in V}

Responses ==
    WithOptionalKey(
        WithOptionalKey(
            WithOptionalKey({EmptyDict}, "server", Tokens \cup {None}),
            "status", {<<>>, <<TRUE>>, <<FALSE>>}),
        "data", {<<>>} \cup {<<d>> : d \in Fragments})

\* an exchange either raises (transport error) or returns a response mapping
Outcomes == {[kind |-> "raise", resp |-> EmptyDict]}
            \cup {[kind |-> "resp", resp |-> r] : r \in Responses}

\* ------------------------------------------------- request map
\* variant: max_new_tokens is tested for truth, so 0 is left out as well
make_llm_req_map_truthy(model_name, prompt, output_type, max_tokens, max_new_tokens, server) ==
    LET d0 == SetKey(EmptyDict, "model_name", model_name)
        d1 == SetKey(d0, "prompt", prompt)
        d2 == SetKey(d1, "output_type", output_type)
        d3 == SetKey(d2, "max_tokens", max_tokens)
        d4 == IF max_new_tokens \notin {None, "0"}
              THEN SetKey(d3, "max_new_tokens", max_new_tokens) ELSE d3
        d5 == IF server # None THEN SetKey(d4, "server", server) ELSE d4
    IN  d5

\* StreamingCompletion.make_llm_req_map
make_llm_req_map(model_name, prompt, output_type, max_tokens, max_new_tokens, server) ==
    LET d0 == SetKey(EmptyDict, "model_name", model_name)
        d1 == SetKey(d0, "prompt", prompt)
        d2 == SetKey(d1, "output_type", output_type)
        d3 == SetKey(d2, "max_tokens", max_tokens)
        d4 == IF max_new_tokens # None
              THEN SetKey(d3, "max_new_tokens", max_new_tokens) ELSE d3
        d5 == IF server # None THEN SetKey(d4, "server", server) ELSE d4
    IN  d5

\* model_config.as_dict(): the configuration object serialized to a mapping
as_dict(model_config) ==
    CASE model_config = "config_a" -> "dict_a"
      [] model_config = "config_b" -> "dict_b"
      [] model_config = "config_empty" -> "dict_empty"

\* the truth value Python gives self.model_config in "if self.model_config":
\* False for None and for a configuration that is empty
bool_model_config(model_config) == model_config \notin {None, "config_empty"}

\* variant: the request is not tagged with its type
GenerationNode_make_llm_req_map_untagged(model_config, model_name, prompt, output_type, max_tokens, max_new_tokens) ==
    LET d0 == SetKey(EmptyDict, "model_name", model_name)
        d1 == SetKey(d0, "prompt", prompt)
        d2 == SetKey(d1, "output_type", output_type)
        d3 == SetKey(d2, "max_tokens", max_tokens)
        d4 == IF max_new_tokens # None
              THEN SetKey(d3, "max_new_tokens", max_new_tokens) ELSE d3
        d5 == IF bool_model_config(model_config)
              THEN SetKey(d4, "model_config", as_dict(model_config)) ELSE d4
    IN  d5

\* GenerationNode.make_llm_req_map; model_config is self.model_config: None
\* when the node's configuration has none, otherwise what the configuration
\* holds under "model_config", which may be empty
GenerationNode_make_llm_req_map(model_config, model_name, prompt, output_type, max_tokens, max_new_tokens) ==
    LET d0 == SetKey(EmptyDict, "model_name", model_name)
        d1 == SetKey(d0, "prompt", prompt)
        d2 == SetKey(d1, "output_type", output_type)
        d3 == SetKey(d2, "max_tokens", max_tokens)
        d4 == IF max_new_tokens # None
              THEN SetKey(d3, "max_new_tokens", max_new_tokens) ELSE d3
        d5 == IF bool_model_config(model_config)
              THEN SetKey(d4, "model_config", as_dict(model_config)) ELSE d4
        d6 == SetKey(d5, "type", "completion")
    IN  d6

\* ------------------------------------------------- StreamingCompletionObject
SyncDefaultMaxErrors == 0

\* StreamingCompletionObject.__init__
StreamingCompletionObject(request_params, polling_interval, max_errors) ==
    [request_params   |-> request_params,
     done_streaming   |-> FALSE,
     server           |-> None,
     polling_interval |-> polling_interval,
     current_result   |-> None,
     error_count      |-> 0,
     max_errors       |-> max_errors]

\* variant: the token is written into the request only while it has none
StreamingCompletionObject_inject_once(self) ==
    IF self.server # None /\ "server" \notin DOMAIN self.request_params
    THEN [self EXCEPT !.request_params = SetKey(@, "server", self.server)]
    ELSE self

\* next(), the statement before the try block: inject a known server token
StreamingCompletionObject_inject(self) ==
    IF self.server # None
    THEN [self EXCEPT !.request_params = SetKey(@, "server", self.server)]
    ELSE self

\* variant: a successful exchange clears the error count
StreamingCompletionObject_try_resets(self, o) ==
    IF o.kind = "raise" THEN [self |-> self, raised |-> TRUE]
    ELSE IF "server" \notin DOMAIN o.resp THEN [self |-> self, raised |-> TRUE]
    ELSE LET s1 == [self EXCEPT !.server = o.resp["server"]] IN
         IF "status" \notin DOMAIN o.resp \/ Len(o.resp["status"]) = 0
         THEN [self |-> s1, raised |-> TRUE]
         ELSE LET s2 == IF o.resp["status"][1]
                        THEN [s1 EXCEPT !.done_streaming = TRUE] ELSE s1 IN
              IF "data" \notin DOMAIN o.resp \/ Len(o.resp["data"]) = 0
              THEN [self |-> s2, raised |-> TRUE]
              ELSE [self   |-> [s2 EXCEPT !.current_result = o.resp["data"][1],
                                          !.error_count = 0],
                    raised |-> FALSE]

\* next(), the try block: the exchange and the reads of the response, in the
\* order the code performs them; raised tells whether control reaches except
StreamingCompletionObject_try(self, o) ==
    IF o.kind = "raise" THEN [self |-> self, raised |-> TRUE]
    ELSE IF "server" \notin DOMAIN o.resp THEN [self |-> self, raised |-> TRUE]
    ELSE LET s1 == [self EXCEPT !.server = o.resp["server"]] IN
         IF "status" \notin DOMAIN o.resp \/ Len(o.resp["status"]) = 0
         THEN [self |-> s1, raised |-> TRUE]
         ELSE LET s2 == IF o.resp["status"][1]
                        THEN [s1 EXCEPT !.done_streaming = TRUE] ELSE s1 IN
              IF "data" \notin DOMAIN o.resp \/ Len(o.resp["data"]) = 0
              THEN [self |-> s2, raised |-> TRUE]
              ELSE [self   |-> [s2 EXCEPT !.current_result = o.resp["data"][1]],
                    raised |-> FALSE]

\* next(), the except clause and the return that follows it
StreamingCompletionObject_except(self) ==
    LET s1 == [self EXCEPT !.error_count = @ + 1] IN
    IF s1.error_count > s1.max_errors
    THEN [self |-> s1, ret |-> [kind |-> "raise", value |-> None]]
    ELSE [self |-> s1, ret |-> [kind |-> "return", value |-> s1.current_result]]

\* variant: next() goes to sleep without looking at done_streaming
StreamingCompletionObject_next_entry_unguarded(self) == "sleep"

\* next() up to time.sleep: end-of-sequence, or the sleep
StreamingCompletionObject_next_entry(self) ==
    IF self.done_streaming THEN "stop" ELSE "sleep"

\* next() from the end of the exchange, with outcome o, to its return or raise
StreamingCompletionObject_next_exit(self, o) ==
    LET t == StreamingCompletionObject_try(self, o) IN
    IF t.raised THEN StreamingCompletionObject_except(t.self)
    ELSE [self |-> t.self,
          ret  |-> [kind |-> "return", value |-> t.self.current_result]]

\* ------------------------------------------------- AsyncStreamingCompletionObject
AsyncDefaultMaxErrors == 5

\* AsyncStreamingCompletionObject.__init__
AsyncStreamingCompletionObject(request_params, polling_interval, max_errors) ==
    [request_params   |-> request_params,
     done_streaming   |-> FALSE,
     server           |-> None,
     polling_interval |-> polling_interval,
     current_result   |-> None,
     error_count      |-> 0,
     max_errors       |-> max_errors]

\* variant: the token is never written into the request
AsyncStreamingCompletionObject_inject_never(self) == self

\* next(), the statement before the try block
AsyncStreamingCompletionObject_inject(self) ==
    IF self.server # None
    THEN [self EXCEPT !.request_params = SetKey(@, "server", self.server)]
    ELSE self

\* variant: a response that reports completion ends the session before its
\* data is stored
AsyncStreamingCompletionObject_try_drops_last(self, o) ==
    IF o.kind = "raise" THEN [self |-> self, raised |-> TRUE]
    ELSE IF "server" \notin DOMAIN o.resp THEN [self |-> self, raised |-> TRUE]
    ELSE LET s1 == [self EXCEPT !.server = o.resp["server"]] IN
         IF "status" \notin DOMAIN o.resp \/ Len(o.resp["status"]) = 0
         THEN [self |-> s1, raised |-> TRUE]
         ELSE IF o.resp["status"][1]
              THEN [self |-> [s1 EXCEPT !.done_streaming = TRUE], raised |-> FALSE]
              ELSE IF "data" \notin DOMAIN o.resp \/ Len(o.resp["data"]) = 0
                   THEN [self |-> s1, raised |-> TRUE]
                   ELSE [self   |-> [s1 EXCEPT !.current_result = o.resp["data"][1]],
                         raised |-> FALSE]

\* next(), the try block (the client session is closed before the response
\* is read; a failure while opening or closing it is a transport failure)
AsyncStreamingCompletionObject_try(self, o) ==
    IF o.kind = "raise" THEN [self |-> self, raised |-> TRUE]
    ELSE IF "server" \notin DOMAIN o.resp THEN [self |-> self, raised |-> TRUE]
    ELSE LET s1 == [self EXCEPT !.server = o.resp["server"]] IN
         IF "status" \notin DOMAIN o.resp \/ Len(o.resp["status"]) = 0
         THEN [self |-> s1, raised |-> TRUE]
         ELSE LET s2 == IF o.resp["status"][1]
                        THEN [s1 EXCEPT !.done_streaming = TRUE] ELSE s1 IN
              IF "data" \notin DOMAIN o.resp \/ Len(o.resp["data"]) = 0
              THEN [self |-> s2, raised |-> TRUE]
              ELSE [self   |-> [s2 EXCEPT !.current_result = o.resp["data"][1]],
                    raised |-> FALSE]

\* variant: the failure is propagated as soon as the count reaches max_errors
AsyncStreamingCompletionObject_except_early(self) ==
    LET s1 == [self EXCEPT !.error_count = @ + 1] IN
    IF s1.error_count >= s1.max_errors
    THEN [self |-> s1, ret |-> [kind |-> "raise", value |-> None]]
    ELSE [self |-> s1, ret |-> [kind |-> "return", value |-> s1.current_result]]

\* next(), the except clause and the return that follows it
AsyncStreamingCompletionObject_except(self) ==
    LET s1 == [self EXCEPT !.error_count = @ + 1] IN
    IF s1.error_count > s1.max_errors
    THEN [self |-> s1, ret |-> [kind |-> "raise", value |-> None]]
    ELSE [self |-> s1, ret |-> [kind |-> "return", value |-> s1.current_result]]

\* variant: next() goes to sleep without looking at done_streaming
AsyncStreamingCompletionObject_next_entry_unguarded(self) == "sleep"

\* next() up to its first await: end-of-sequence, or the sleep
AsyncStreamingCompletionObject_next_entry(self) ==
    IF self.done_streaming THEN "stop" ELSE "sleep"

\* next() from the end of the exchange, with outcome o, to its return or raise
AsyncStreamingCompletionObject_next_exit(self, o) ==
    LET t == AsyncStreamingCompletionObject_try(self, o) IN
    IF t.raised THEN AsyncStreamingCompletionObject_except(t.self)
    ELSE [self |-> t.self,
          ret  |-> [kind |-> "return", value |-> t.self.current_result]]

\* ------------------------------------------------- StreamingCompletion
\* StreamingCompletion.create
StreamingCompletion_create(prompt, model_name, output_type, max_tokens, max_new_tokens, polling_interval) ==
    StreamingCompletionObject(
        make_llm_req_map(model_name, prompt, output_type, max_tokens,
                         max_new_tokens, None),
        polling_interval, SyncDefaultMaxErrors)

\* StreamingCompletion.async_create
StreamingCompletion_async_create(prompt, model_name, output_type, max_tokens, max_new_tokens, polling_interval) ==
    AsyncStreamingCompletionObject(
        make_llm_req_map(model_name, prompt, output_type, max_tokens,
                         max_new_tokens, None),
        polling_interval, AsyncDefaultMaxErrors)

\* ------------------------------------------------- streaming: behaviour
NoRet == [kind |-> "none", value |-> None]

\* shape of an exchange's outcome, by the first thing that goes wrong in it
OutcomeClass(o) ==
    IF o.kind = "raise" THEN "transport"
    ELSE IF "server" \notin DOMAIN o.resp THEN "no_server"
    ELSE IF "status" \notin DOMAIN o.resp \/ Len(o.resp["status"]) = 0 THEN "no_status"
    ELSE IF "data" \notin DOMAIN o.resp \/ Len(o.resp["data"]) = 0
         THEN (IF o.resp["status"][1] THEN "done_no_data" ELSE "no_data")
    ELSE IF o.resp["status"][1] THEN "ok_done" ELSE "ok"

Fails(o) == OutcomeClass(o) \notin {"ok", "ok_done"}

\* the server token a response delivers before anything else is read
Delivered(o) ==
    IF o.kind = "resp" /\ "server" \in DOMAIN o.resp THEN o.resp["server"] ELSE None

\* arguments of create()/async_create() and of the two constructors
ModelNames == {"m"}
MaxNewTokens == {None, "8"}
PollingIntervals == {1}
DirectParams ==
    {make_llm_req_map("m", "hi", None, None, None, srv) : srv \in {None, "s0"}}

InitStream ==
    /\ mode \in {"create", "direct"}
    /\ \/ /\ mode = "create"
          /\ \E mn \in ModelNames, mnt \in MaxNewTokens, pi \in PollingIntervals :
                /\ sync = StreamingCompletion_create("hi", mn, None, None, mnt, pi)
                /\ asyn = StreamingCompletion_async_create("hi", mn, None, None, mnt, pi)
       \/ /\ mode = "direct"
          /\ \E rp \in DirectParams, k \in 0..MaxErrors :
                /\ sync = StreamingCompletionObject(rp, 0, k)
                /\ asyn = AsyncStreamingCompletionObject(rp, 0, k)
    /\ sync_pc = "idle"
    /\ asyn_pc = "idle"
    /\ sync_ret = NoRet
    /\ asyn_ret = NoRet
    /\ sync_nsent = 0
    /\ asyn_nsent = 0
    /\ sync_wire = <<>>
    /\ asyn_wire = <<>>
    /\ ncalls = 0
    /\ learned = None
    /\ latest = None
    /\ all_failed = TRUE
    /\ last_failed = FALSE

\* The consumer of Spec drives the two sessions side by side so that they
\* can be compared: it calls next() on both, and the server answers both
\* exchanges of a round with the same outcome. The sessions are separate
\* objects and share no field. A call is three steps, cut where next() waits.

\* the consumer calls next() on both sessions; each call runs to the
\* done_streaming test and either signals end-of-sequence or goes to sleep
CallEnter ==
    LET es == StreamingCompletionObject_next_entry(sync)
        ea == AsyncStreamingCompletionObject_next_entry(asyn)
    IN  /\ sync_pc = "idle" /\ asyn_pc = "idle"
        /\ ncalls < MaxCalls
        /\ sync_pc' = IF es = "stop" THEN "idle" ELSE "sleep"
        /\ asyn_pc' = IF ea = "stop" THEN "idle" ELSE "sleep"
        /\ sync_ret' = IF es = "stop" THEN [kind |-> "stop", value |-> None]
                       ELSE sync_ret
        /\ asyn_ret' = IF ea = "stop" THEN [kind |-> "stop", value |-> None]
                       ELSE asyn_ret
        /\ IF es = "stop" /\ ea = "stop"
           THEN ncalls' = ncalls + 1 /\ last_failed' = FALSE
           ELSE UNCHANGED <<ncalls, last_failed>>
        /\ UNCHANGED <<mode, sync, asyn, sync_nsent, asyn_nsent, sync_wire,
                       asyn_wire, learned, latest, all_failed>>

\* the sleep is over: a known server token is written into the payload and
\* the request is sent
CallSend ==
    /\ sync_pc = "sleep" \/ asyn_pc = "sleep"
    /\ IF sync_pc = "sleep"
       THEN /\ sync' = StreamingCompletionObject_inject(sync)
            /\ sync_nsent' = sync_nsent + 1
            /\ sync_wire' = <<sync'.request_params>>
            /\ sync_pc' = "flight"
       ELSE UNCHANGED <<sync, sync_nsent, sync_wire, sync_pc>>
    /\ IF asyn_pc = "sleep"
       THEN /\ asyn' = AsyncStreamingCompletionObject_inject(asyn)
            /\ asyn_nsent' = asyn_nsent + 1
            /\ asyn_wire' = <<asyn'.request_params>>
            /\ asyn_pc' = "flight"
       ELSE UNCHANGED <<asyn, asyn_nsent, asyn_wire, asyn_pc>>
    /\ UNCHANGED <<mode, sync_ret, asyn_ret, ncalls, learned, latest,
                   all_failed, last_failed>>

\* the exchange ends with outcome o; each call runs to its return or to the
\* raise in the except clause
CallReceive(o) ==
    /\ sync_pc = "flight" \/ asyn_pc = "flight"
    /\ IF sync_pc = "flight"
       THEN LET r == StreamingCompletionObject_next_exit(sync, o) IN
            /\ sync' = r.self
            /\ sync_ret' = r.ret
            /\ sync_pc' = "idle"
       ELSE UNCHANGED <<sync, sync_ret, sync_pc>>
    /\ IF asyn_pc = "flight"
       THEN LET r == AsyncStreamingCompletionObject_next_exit(asyn, o) IN
            /\ asyn' = r.self
            /\ asyn_ret' = r.ret
            /\ asyn_pc' = "idle"
       ELSE UNCHANGED <<asyn, asyn_ret, asyn_pc>>
    /\ ncalls' = ncalls + 1
    /\ learned' = IF ~Fails(o) /\ learned = None THEN Delivered(o) ELSE learned
    /\ latest' = IF Delivered(o) # None THEN Delivered(o) ELSE latest
    /\ all_failed' = (all_failed /\ Fails(o))
    /\ last_failed' = Fails(o)
    /\ UNCHANGED <<mode, sync_nsent, asyn_nsent, sync_wire, asyn_wire>>

\* ------------------------------------------------- generation node: values
\* Every value that flows through the pipeline or comes back from a hook is a
\* record tagged with its Python type.
NoneItem == [type |-> "NoneType"]
PromptObject(prompt, response) ==
    [type |-> "PromptObject", prompt |-> prompt, response |-> response]
StrValue == [type |-> "str"]
Generator(items) == [type |-> "generator", items |-> items]
List(items) == [type |-> "list", items |-> items]

\* ------------------------------------------------- generation node: inputs
\* longest prompt sequence handed to a node
MaxInput == 2

PromptIds == {1, 2}
InputItems == {NoneItem} \cup {PromptObject(i, None) : i \in PromptIds}
Inputs == UNION {[1..n -> InputItems] : n \in 0..MaxInput}

NoHook == "absent"
HookKinds == {"in_place", "replace", "gen_empty", "gen_items", "gen_bad",
              "list_items", "bad"}

\* a PromptObject a hook derives from its argument
Derived(a, n) ==
    IF a = NoneItem THEN PromptObject(n, None)
    ELSE PromptObject(a.prompt + n, a.response)

\* what a hook of the given kind returns for argument a
CallHook(kind, a) ==
    CASE kind = "in_place"   -> NoneItem
      [] kind = "replace"    -> Derived(a, 10)
      [] kind = "gen_empty"  -> Generator(<<>>)
      [] kind = "gen_items"  -> Generator(<<Derived(a, 10), NoneItem, Derived(a, 20)>>)
      [] kind = "gen_bad"    -> Generator(<<Derived(a, 10), StrValue>>)
      [] kind = "list_items" -> List(<<Derived(a, 10), Derived(a, 20)>>)
      [] kind = "bad"        -> StrValue

Responses_q == {None, "r1"}

NoCall == [called |-> FALSE, a |-> NoneItem, mod_a |-> NoneItem, n |-> 0, k |-> 0]

\* ------------------------------------------------- GenerationNode.transform_prompt
\* variant: an eager list is taken for a generator as well
isinstance_Generator_or_list(x) == x.type \in {"generator", "list"}

isinstance_Generator(x) == x.type = "generator"
\* variant: a string passes for a PromptObject
isinstance_PromptObject_or_str(x) == x.type \in {"PromptObject", "str"}

isinstance_PromptObject(x) == x.type = "PromptObject"

\* variant: the hook's result is used even when it is None
transform_prompt_single_always(a, mod_a) == mod_a

\* the item the single-value path yields: mod_a unless the hook returned None
transform_prompt_single(a, mod_a) == IF mod_a # NoneItem THEN mod_a ELSE a

\* transform_prompt is an async generator: its body runs only while an
\* __anext__ on it is awaited, and is suspended again at each yield
transform_prompt_resumed_eager == TRUE

transform_prompt_resumed == tp_req

\* the consumer of transform_prompt (the inference queue) awaits its next item
transform_prompt_anext ==
    /\ ~tp_req
    /\ tp_pc \in {"loop", "inner"}
    /\ tp_req' = TRUE
    /\ UNCHANGED <<preprocess, postprocess, input, tp_idx, tp_pc, tp_gen,
                   transformed, q_idx, q_pc, generated, pr_idx, pr_pc, pr_gen,
                   results, tp_call, pr_call, pr_req>>

\* one turn of "async for a in prompt_iterator" up to its yield, its continue
\* into the hook's generator, or its failing assert
transform_prompt_fetch ==
    /\ transform_prompt_resumed
    /\ tp_pc = "loop"
    /\ IF tp_idx = Len(input)
       THEN /\ tp_pc' = "done"
            /\ UNCHANGED <<tp_idx, tp_gen, transformed, tp_call>>
       ELSE LET a == input[tp_idx + 1] IN
            /\ tp_idx' = tp_idx + 1
            /\ IF preprocess # NoHook
               THEN LET mod_a == CallHook(preprocess, a) IN
                    /\ tp_call' = [called |-> TRUE, a |-> a, mod_a |-> mod_a,
                                   n |-> Len(transformed), k |-> tp_idx + 1]
                    /\ IF isinstance_Generator(mod_a)
                       THEN /\ tp_gen' = mod_a.items
                            /\ tp_pc' = "inner"
                            /\ UNCHANGED transformed
                       ELSE LET a2 == transform_prompt_single(a, mod_a) IN
                            /\ UNCHANGED tp_gen
                            /\ IF a2 = NoneItem \/ isinstance_PromptObject(a2)
                               THEN /\ transformed' = Append(transformed, a2)
                                    /\ UNCHANGED tp_pc
                               ELSE /\ tp_pc' = "failed"
                                    /\ UNCHANGED transformed
               ELSE /\ UNCHANGED <<tp_gen, tp_call>>
                    /\ IF a = NoneItem \/ isinstance_PromptObject(a)
                       THEN /\ transformed' = Append(transformed, a)
                            /\ UNCHANGED tp_pc
                       ELSE /\ tp_pc' = "failed"
                            /\ UNCHANGED transformed
    /\ tp_req' = (transformed' = transformed /\ tp_pc' \notin {"done", "failed"})
    /\ UNCHANGED <<preprocess, postprocess, input, q_idx, q_pc, generated,
                   pr_idx, pr_pc, pr_gen, results, pr_call, pr_req>>

\* variant: the loop over the hook's generator is not followed by continue,
\* so the input item is yielded after its expansion
transform_prompt_inner_no_continue ==
    /\ transform_prompt_resumed
    /\ tp_pc = "inner"
    /\ IF tp_gen = <<>>
       THEN /\ tp_pc' = "loop"
            /\ transformed' = Append(transformed, input[tp_idx])
            /\ UNCHANGED tp_gen
       ELSE LET a == Head(tp_gen) IN
            /\ tp_gen' = Tail(tp_gen)
            /\ IF a # NoneItem
               THEN IF isinstance_PromptObject(a)
                    THEN /\ transformed' = Append(transformed, a)
                         /\ UNCHANGED tp_pc
                    ELSE /\ tp_pc' = "failed"
                         /\ UNCHANGED transformed
               ELSE UNCHANGED <<tp_pc, transformed>>
    /\ tp_req' = (transformed' = transformed /\ tp_pc' \notin {"done", "failed"})
    /\ UNCHANGED <<preprocess, postprocess, input, tp_idx, tp_call, q_idx, q_pc,
                   generated, pr_idx, pr_pc, pr_gen, results, pr_call, pr_req>>

\* one turn of "for a in mod_a": skip a None, yield a PromptObject, fail the
\* assert on anything else, continue the outer loop when exhausted
transform_prompt_inner ==
    /\ transform_prompt_resumed
    /\ tp_pc = "inner"
    /\ IF tp_gen = <<>>
       THEN /\ tp_pc' = "loop"
            /\ UNCHANGED <<tp_gen, transformed>>
       ELSE LET a == Head(tp_gen) IN
            /\ tp_gen' = Tail(tp_gen)
            /\ IF a # NoneItem
               THEN IF isinstance_PromptObject(a)
                    THEN /\ transformed' = Append(transformed, a)
                         /\ UNCHANGED tp_pc
                    ELSE /\ tp_pc' = "failed"
                         /\ UNCHANGED transformed
               ELSE UNCHANGED <<tp_pc, transformed>>
    /\ tp_req' = (transformed' = transformed /\ tp_pc' \notin {"done", "failed"})
    /\ UNCHANGED <<preprocess, postprocess, input, tp_idx, tp_call, q_idx, q_pc,
                   generated, pr_idx, pr_pc, pr_gen, results, pr_call, pr_req>>

\* ------------------------------------------------- GenerationNode.generate
\* The inference queue takes the transformed items in order and returns each
\* with its response populated or None; a None item comes back as None.
generate ==
    /\ q_pc = "run"
    /\ IF q_idx < Len(transformed)
       THEN LET a == transformed[q_idx + 1] IN
            /\ q_idx' = q_idx + 1
            /\ \E r \in Responses_q :
                  generated' = Append(generated,
                                      IF a = NoneItem THEN NoneItem
                                      ELSE [a EXCEPT !.response = r])
            /\ UNCHANGED q_pc
       ELSE /\ tp_pc \in {"done", "failed"}
            /\ q_pc' = tp_pc
            /\ UNCHANGED <<q_idx, generated>>
    /\ UNCHANGED <<preprocess, postprocess, input, tp_idx, tp_pc, tp_gen,
                   transformed, tp_call, pr_idx, pr_pc, pr_gen, results, pr_call,
                   tp_req, pr_req>>

\* ------------------------------------------------- GenerationNode.process_results
\* variant: only a None item is skipped
process_results_skip_none_only(a) == a = NoneItem

\* the test that makes process_results skip an item
process_results_skip(a) == a = NoneItem \/ a.response = None

\* variant: the hook's result is used even when it is None
process_results_single_always(a, mod_a) == mod_a

\* the item the single-value path yields
process_results_single(a, mod_a) == IF mod_a # NoneItem THEN mod_a ELSE a

\* process_results is an async generator too
process_results_resumed == pr_req

\* the caller of the node awaits the next result
process_results_anext ==
    /\ ~pr_req
    /\ pr_pc \in {"loop", "inner"}
    /\ pr_req' = TRUE
    /\ UNCHANGED <<preprocess, postprocess, input, tp_idx, tp_pc, tp_gen,
                   transformed, q_idx, q_pc, generated, pr_idx, pr_pc, pr_gen,
                   results, tp_call, pr_call, tp_req>>

\* one turn of "async for a in prompt_async_iter"
process_results_fetch ==
    /\ process_results_resumed
    /\ pr_pc = "loop"
    /\ IF pr_idx = Len(generated)
       THEN /\ q_pc \in {"done", "failed"}
            /\ pr_pc' = q_pc
            /\ UNCHANGED <<pr_idx, pr_gen, results, pr_call>>
       ELSE LET a == generated[pr_idx + 1] IN
            /\ pr_idx' = pr_idx + 1
            /\ IF process_results_skip(a)
               THEN UNCHANGED <<pr_pc, pr_gen, results, pr_call>>
               ELSE IF postprocess # NoHook
                    THEN LET mod_a == CallHook(postprocess, a) IN
                         /\ pr_call' = [called |-> TRUE, a |-> a, mod_a |-> mod_a,
                                        n |-> Len(results), k |-> pr_idx + 1]
                         /\ IF isinstance_Generator(mod_a)
                            THEN /\ pr_gen' = mod_a.items
                                 /\ pr_pc' = "inner"
                                 /\ UNCHANGED results
                            ELSE LET a2 == process_results_single(a, mod_a) IN
                                 /\ UNCHANGED pr_gen
                                 /\ IF a2 = NoneItem \/ isinstance_PromptObject(a2)
                                    THEN /\ results' = Append(results, a2)
                                         /\ UNCHANGED pr_pc
                                    ELSE /\ pr_pc' = "failed"
                                         /\ UNCHANGED results
                    ELSE /\ UNCHANGED <<pr_gen, pr_call>>
                         /\ IF a = NoneItem \/ isinstance_PromptObject(a)
                            THEN /\ results' = Append(results, a)
                                 /\ UNCHANGED pr_pc
                            ELSE /\ pr_pc' = "failed"
                                 /\ UNCHANGED results
    /\ pr_req' = (results' = results /\ pr_pc' \notin {"done", "failed"})
    /\ UNCHANGED <<preprocess, postprocess, input, tp_idx, tp_pc, tp_gen,
                   transformed, tp_call, q_idx, q_pc, generated, tp_req>>

\* one turn of "for a in mod_a" in process_results
process_results_inner ==
    /\ process_results_resumed
    /\ pr_pc = "inner"
    /\ IF pr_gen = <<>>
       THEN /\ pr_pc' = "loop"
            /\ UNCHANGED <<pr_gen, results>>
       ELSE LET a == Head(pr_gen) IN
            /\ pr_gen' = Tail(pr_gen)
            /\ IF a # NoneItem
               THEN IF isinstance_PromptObject(a)
                    THEN /\ results' = Append(results, a)
                         /\ UNCHANGED pr_pc
                    ELSE /\ pr_pc' = "failed"
                         /\ UNCHANGED results
               ELSE UNCHANGED <<pr_pc, results>>
    /\ pr_req' = (results' = results /\ pr_pc' \notin {"done", "failed"})
    /\ UNCHANGED <<preprocess, postprocess, input, tp_idx, tp_pc, tp_gen,
                   transformed, tp_call, q_idx, q_pc, generated, pr_idx, pr_call,
                   tp_req>>

\* ------------------------------------------------- specifications
\* the node before __call__ is given the prompt sequence inp
NodeStart(pre, post, inp) ==
    /\ preprocess = pre
    /\ postprocess = post
    /\ input = inp
    /\ tp_idx = 0
    /\ tp_pc = "loop"
    /\ tp_gen = <<>>
    /\ transformed = <<>>
    /\ q_idx = 0
    /\ q_pc = "run"
    /\ generated = <<>>
    /\ pr_idx = 0
    /\ pr_pc = "loop"
    /\ pr_gen = <<>>
    /\ results = <<>>
    /\ tp_call = NoCall
    /\ pr_call = NoCall
    /\ tp_req = FALSE
    /\ pr_req = FALSE

\* ------------------------------------------------- request maps: behaviour
ReqArgs ==
    [model_config   : {None, "config_empty", "config_a", "config_b"},
     model_name     : {None, "m"},
     prompt         : {"hi"},
     output_type    : {None, "o"},
     max_tokens     : {None, "16"},
     max_new_tokens : {None, "0", "8"},
     server         : {None, "s1"}]

ReqStart(args) ==
    /\ req_args = args
    /\ req_streaming = <<>>
    /\ req_node = <<>>

\* StreamingCompletion.make_llm_req_map is called with the arguments
BuildStreamingRequest ==
    /\ req_streaming = <<>>
    /\ req_streaming' = <<make_llm_req_map(req_args.model_name, req_args.prompt,
                             req_args.output_type, req_args.max_tokens,
                             req_args.max_new_tokens, req_args.server)>>
    /\ UNCHANGED <<req_args, req_node>>

\* GenerationNode.make_llm_req_map is called with the arguments
BuildNodeRequest ==
    /\ req_node = <<>>
    /\ req_node' = <<GenerationNode_make_llm_req_map(req_args.model_config,
                        req_args.model_name, req_args.prompt,
                        req_args.output_type, req_args.max_tokens,
                        req_args.max_new_tokens)>>
    /\ UNCHANGED <<req_args, req_streaming>>

ReqIdle == ReqStart(CHOOSE a \in ReqArgs : a.model_config = None /\ a.model_name = None
                       /\ a.output_type = None /\ a.max_tokens = None
                       /\ a.max_new_tokens = None /\ a.server = None)

TasksIdle ==
    /\ task_obj = "asyn"
    /\ task_pc = <<>>
    /\ overlapped = FALSE

\* no consumer loop is running
LoopIdle ==
    /\ lp_target = "sync"
    /\ lp_retries = FALSE
    /\ lp_completed = FALSE
    /\ lp_nfailed = 0
    /\ lp_raised = FALSE
    /\ lp_fragment = None
    /\ lp_status = None
    /\ lp_nyield = 0
    /\ lp_last = None
    /\ lp_between = FALSE

\* streaming sessions polled by one consumer; no node is running
Init ==
    InitStream /\ NodeStart(NoHook, NoHook, <<>>) /\ ReqIdle /\ TasksIdle /\ LoopIdle

Next ==
    /\ \/ CallEnter
       \/ CallSend
       \/ \E o \in Outcomes : CallReceive(o)
    /\ UNCHANGED <<nvars, rvars, tvars, lvars>>

Spec == Init /\ [][Next]_vars

\* one GenerationNode.__call__ on a prompt sequence
InitNode ==
    /\ InitStream
    /\ mode = "direct"
    /\ sync.max_errors = 0
    /\ "server" \notin DOMAIN sync.request_params
    /\ \E pre \in HookKinds \cup {NoHook}, post \in HookKinds \cup {NoHook},
          inp \in Inputs : NodeStart(pre, post, inp)
    /\ ReqIdle
    /\ TasksIdle
    /\ LoopIdle

NextNode ==
    /\ \/ transform_prompt_anext
       \/ transform_prompt_fetch
       \/ transform_prompt_inner
       \/ generate
       \/ process_results_anext
       \/ process_results_fetch
       \/ process_results_inner
    /\ UNCHANGED <<svars, rvars, tvars, lvars>>

SpecNode == InitNode /\ [][NextNode]_vars

\* transform_prompt and process_results of one node whose preprocess and
\* postprocess are the same hook, each called on its own iterator over the
\* same sequence of generated items
AnsweredItems == {PromptObject(i, "r1") : i \in PromptIds}
HookInputs == UNION {[1..n -> AnsweredItems] : n \in 1..MaxInput}

InitHook ==
    /\ InitStream
    /\ mode = "direct"
    /\ sync.max_errors = 0
    /\ "server" \notin DOMAIN sync.request_params
    /\ ReqIdle
    /\ TasksIdle
    /\ LoopIdle
    /\ \E h \in HookKinds, inp \in HookInputs :
          /\ preprocess = h
          /\ postprocess = h
          /\ input = inp
          /\ generated = inp
    /\ tp_idx = 0
    /\ tp_pc = "loop"
    /\ tp_gen = <<>>
    /\ transformed = <<>>
    /\ q_idx = 0
    /\ q_pc = "done"
    /\ pr_idx = 0
    /\ pr_pc = "loop"
    /\ pr_gen = <<>>
    /\ results = <<>>
    /\ tp_call = NoCall
    /\ pr_call = NoCall
    /\ tp_req = FALSE
    /\ pr_req = FALSE

NextHook ==
    /\ \/ transform_prompt_anext
       \/ transform_prompt_fetch
       \/ transform_prompt_inner
       \/ process_results_anext
       \/ process_results_fetch
       \/ process_results_inner
    /\ UNCHANGED <<svars, rvars, tvars, lvars>>

SpecHook == InitHook /\ [][NextHook]_vars

\* ------------------------------------------------- shared session: behaviour
\* Several callers use one session at once. A caller gives way to the others
\* where next() waits: in the sleep and while the request is out. For the
\* tasks of an event loop these are the only places; threads are taken to
\* switch at the same places.
\* tasks that call next() on the same AsyncStreamingCompletionObject
NTasks == 2
\* next() calls the tasks make in total
MaxTaskCalls == 3

Tasks == 1..NTasks

\* caller t calls next() on the shared session; the call runs up to the
\* sleep (time.sleep, which lets other threads run, or await asyncio.sleep);
\* here ncalls counts the calls made
TaskCall(t) ==
    LET entry == IF task_obj = "sync"
                 THEN StreamingCompletionObject_next_entry(sync)
                 ELSE AsyncStreamingCompletionObject_next_entry(asyn)
        stop  == [kind |-> "stop", value |-> None]
    IN  /\ task_pc[t] = "idle"
        /\ ncalls < MaxTaskCalls
        /\ ncalls' = ncalls + 1
        /\ overlapped' = (overlapped \/ \E u \in Tasks \ {t} : task_pc[u] # "idle")
        /\ task_pc' = IF entry = "stop" THEN task_pc
                      ELSE [task_pc EXCEPT ![t] = "sleep"]
        /\ sync_ret' = IF entry = "stop" /\ task_obj = "sync" THEN stop ELSE sync_ret
        /\ asyn_ret' = IF entry = "stop" /\ task_obj = "asyn" THEN stop ELSE asyn_ret
        /\ UNCHANGED <<mode, sync, asyn, sync_pc, asyn_pc, sync_nsent, asyn_nsent,
                       sync_wire, asyn_wire, learned, latest, all_failed,
                       last_failed, task_obj>>

\* the sleep of caller t is over: the token is injected and the request is
\* sent; the call waits for the response (in the blocking request, or
\* suspended at "await make_async_web_request")
TaskSend(t) ==
    /\ task_pc[t] = "sleep"
    /\ task_pc' = [task_pc EXCEPT ![t] = "flight"]
    /\ IF task_obj = "sync"
       THEN /\ sync' = StreamingCompletionObject_inject(sync)
            /\ sync_nsent' = sync_nsent + 1
            /\ sync_wire' = <<sync'.request_params>>
            /\ UNCHANGED <<asyn, asyn_nsent, asyn_wire>>
       ELSE /\ asyn' = AsyncStreamingCompletionObject_inject(asyn)
            /\ asyn_nsent' = asyn_nsent + 1
            /\ asyn_wire' = <<asyn'.request_params>>
            /\ UNCHANGED <<sync, sync_nsent, sync_wire>>
    /\ UNCHANGED <<mode, sync_pc, asyn_pc, sync_ret, asyn_ret, ncalls, learned,
                   latest, all_failed, last_failed, task_obj, overlapped>>

\* the exchange of caller t ends with outcome o; the call runs to its return
\* or to the raise in the except clause
TaskReceive(t, o) ==
    /\ task_pc[t] = "flight"
    /\ task_pc' = [task_pc EXCEPT ![t] = "idle"]
    /\ IF task_obj = "sync"
       THEN LET r == StreamingCompletionObject_next_exit(sync, o) IN
            /\ sync' = r.self
            /\ sync_ret' = r.ret
            /\ UNCHANGED <<asyn, asyn_ret>>
       ELSE LET r == AsyncStreamingCompletionObject_next_exit(asyn, o) IN
            /\ asyn' = r.self
            /\ asyn_ret' = r.ret
            /\ UNCHANGED <<sync, sync_ret>>
    /\ UNCHANGED <<mode, sync_pc, asyn_pc, sync_nsent, asyn_nsent, sync_wire,
                   asyn_wire, ncalls, learned, latest, all_failed, last_failed,
                   task_obj, overlapped>>

InitTasks ==
    /\ InitStream
    /\ NodeStart(NoHook, NoHook, <<>>)
    /\ ReqIdle
    /\ task_obj \in {"sync", "asyn"}
    /\ task_pc = [t \in Tasks |-> "idle"]
    /\ overlapped = FALSE
    /\ LoopIdle

NextTasks ==
    /\ \E t \in Tasks :
          \/ TaskCall(t)
          \/ TaskSend(t)
          \/ \E o \in Outcomes : TaskReceive(t, o)
    /\ UNCHANGED <<nvars, rvars, lvars>>

SpecTasks == InitTasks /\ [][NextTasks]_vars

\* one fixed idle session, for the specifications that poll none
StreamIdle ==
    /\ InitStream
    /\ mode = "direct"
    /\ sync.max_errors = 0
    /\ "server" \notin DOMAIN sync.request_params

\* the two request map builders applied to every combination of arguments
InitReq ==
    /\ StreamIdle
    /\ NodeStart(NoHook, NoHook, <<>>)
    /\ TasksIdle
    /\ LoopIdle
    /\ \E args \in ReqArgs : ReqStart(args)

NextReq ==
    /\ \/ BuildStreamingRequest
       \/ BuildNodeRequest
    /\ UNCHANGED <<svars, nvars, tvars, lvars>>

SpecReq == InitReq /\ [][NextReq]_vars

\* ------------------------------------------------- consumer loop: behaviour
\* One consumer iterates a session that nobody else uses; an iteration is
\* the three steps of next(). A session used by several callers at once is
\* the subject of SpecTasks.
Sessions == {"sync", "asyn"}

\* the answers of a server that names itself "s1" whenever it names itself
LoopOutcomes ==
    {o \in Outcomes : o.kind = "resp" /\ "server" \in DOMAIN o.resp
                         => o.resp["server"] = "s1"}

\* "for value in session": the loop goes on while __next__ returns values; it
\* ends at end-of-sequence, and at a propagated failure unless the consumer
\* catches the failure and iterates again
LoopRunning ==
    LET k == IF lp_target = "sync" THEN sync_ret.kind ELSE asyn_ret.kind
    IN  k \in {"none", "return"} \/ (lp_retries /\ k = "raise")

\* the loop asks for the next value: __next__ / __anext__ calls next(), which
\* runs to the done_streaming test and signals end-of-sequence or goes to
\* sleep; at most MaxCalls polls are made
LoopEnter ==
    LET x     == lp_target
        entry == IF x = "sync" THEN StreamingCompletionObject_next_entry(sync)
                 ELSE AsyncStreamingCompletionObject_next_entry(asyn)
        pc    == IF x = "sync" THEN sync_pc ELSE asyn_pc
        nsent == IF x = "sync" THEN sync_nsent ELSE asyn_nsent
        stop  == [kind |-> "stop", value |-> None]
    IN  /\ pc = "idle"
        /\ LoopRunning
        /\ entry = "stop" \/ nsent < MaxCalls
        /\ IF entry = "stop"
           THEN /\ sync_ret' = IF x = "sync" THEN stop ELSE sync_ret
                /\ asyn_ret' = IF x = "asyn" THEN stop ELSE asyn_ret
                /\ ncalls' = ncalls + 1
                /\ last_failed' = FALSE
                /\ lp_raised' = (lp_raised \/ (IF x = "sync" THEN sync_ret.kind
                                                ELSE asyn_ret.kind) = "raise")
                /\ UNCHANGED <<sync_pc, asyn_pc>>
           ELSE /\ sync_pc' = IF x = "sync" THEN "sleep" ELSE sync_pc
                /\ asyn_pc' = IF x = "asyn" THEN "sleep" ELSE asyn_pc
                /\ UNCHANGED <<sync_ret, asyn_ret, ncalls, last_failed, lp_raised>>
        /\ UNCHANGED <<mode, sync, asyn, sync_nsent, asyn_nsent, sync_wire,
                       asyn_wire, learned, latest, all_failed, lp_target,
                       lp_retries, lp_completed, lp_nfailed, lp_fragment,
                       lp_status, lp_nyield, lp_last, lp_between>>

\* the sleep is over: a known server token is written into the payload and
\* the request is sent
LoopSend ==
    /\ IF lp_target = "sync"
       THEN /\ sync_pc = "sleep"
            /\ sync' = StreamingCompletionObject_inject(sync)
            /\ sync_nsent' = sync_nsent + 1
            /\ sync_wire' = <<sync'.request_params>>
            /\ sync_pc' = "flight"
            /\ UNCHANGED <<asyn, asyn_nsent, asyn_wire, asyn_pc>>
       ELSE /\ asyn_pc = "sleep"
            /\ asyn' = AsyncStreamingCompletionObject_inject(asyn)
            /\ asyn_nsent' = asyn_nsent + 1
            /\ asyn_wire' = <<asyn'.request_params>>
            /\ asyn_pc' = "flight"
            /\ UNCHANGED <<sync, sync_nsent, sync_wire, sync_pc>>
    /\ UNCHANGED <<mode, sync_ret, asyn_ret, ncalls, learned, latest,
                   all_failed, last_failed, lvars>>

\* the exchange ends with outcome o; next() runs to its return or to the
\* raise in the except clause, and the loop receives the value or ends
LoopReceive(o) ==
    LET x      == lp_target
        before == IF x = "sync" THEN sync_ret ELSE asyn_ret
        r      == IF x = "sync" THEN StreamingCompletionObject_next_exit(sync, o)
                  ELSE AsyncStreamingCompletionObject_next_exit(asyn, o)
        ok     == ~Fails(o)
    IN  /\ (IF x = "sync" THEN sync_pc ELSE asyn_pc) = "flight"
        /\ sync' = IF x = "sync" THEN r.self ELSE sync
        /\ asyn' = IF x = "asyn" THEN r.self ELSE asyn
        /\ sync_ret' = IF x = "sync" THEN r.ret ELSE sync_ret
        /\ asyn_ret' = IF x = "asyn" THEN r.ret ELSE asyn_ret
        /\ sync_pc' = IF x = "sync" THEN "idle" ELSE sync_pc
        /\ asyn_pc' = IF x = "asyn" THEN "idle" ELSE asyn_pc
        /\ ncalls' = ncalls + 1
        /\ learned' = IF ok /\ learned = None THEN Delivered(o) ELSE learned
        /\ latest' = IF Delivered(o) # None THEN Delivered(o) ELSE latest
        /\ all_failed' = (all_failed /\ Fails(o))
        /\ last_failed' = Fails(o)
        /\ lp_completed' = (lp_completed \/ (ok /\ o.resp["status"][1]))
        /\ lp_nfailed' = IF Fails(o) THEN lp_nfailed + 1 ELSE lp_nfailed
        /\ lp_raised' = (lp_raised \/ before.kind = "raise")
        /\ lp_fragment' = IF ok THEN o.resp["data"][1] ELSE None
        /\ lp_status' = IF ~ok THEN None
                        ELSE IF o.resp["status"][1] THEN "done" ELSE "more"
        /\ lp_nyield' = IF r.ret.kind = "return" THEN lp_nyield + 1 ELSE lp_nyield
        /\ lp_last' = IF r.ret.kind = "return" THEN r.ret.value ELSE lp_last
        /\ lp_between' = (lp_between \/ (Fails(o) /\ lp_nfailed >= 1
                                            /\ lp_status # None))
        /\ UNCHANGED <<mode, sync_nsent, asyn_nsent, sync_wire, asyn_wire,
                       lp_target, lp_retries>>

\* a consumer starts iterating one of the two sessions
InitLoop ==
    /\ InitStream
    /\ NodeStart(NoHook, NoHook, <<>>)
    /\ ReqIdle
    /\ TasksIdle
    /\ lp_target \in Sessions
    /\ lp_retries \in BOOLEAN
    /\ lp_completed = FALSE
    /\ lp_nfailed = 0
    /\ lp_raised = FALSE
    /\ lp_fragment = None
    /\ lp_status = None
    /\ lp_nyield = 0
    /\ lp_last = None
    /\ lp_between = FALSE

NextLoop ==
    /\ \/ LoopEnter
       \/ LoopSend
       \/ \E o \in LoopOutcomes : LoopReceive(o)
    /\ UNCHANGED <<nvars, rvars, tvars>>

SpecLoop == InitLoop /\ [][NextLoop]_vars

\* the consumer's loop is never suspended for ever between two iterations
SpecLoopFair == SpecLoop /\ WF_vars(NextLoop)

\* ------------------------------------------------- properties: streaming
Obj(x)   == IF x = "sync" THEN sync ELSE asyn
Ret(x)   == IF x = "sync" THEN sync_ret ELSE asyn_ret
Pc(x)    == IF x = "sync" THEN sync_pc ELSE asyn_pc
Wire(x)  == IF x = "sync" THEN sync_wire ELSE asyn_wire
NSent(x) == IF x = "sync" THEN sync_nsent ELSE asyn_nsent

\* the consumer's next() call on session x begins in this step
CallBegins(x) == Pc(x) = "idle" /\ (Pc(x)' # "idle" \/ ncalls' = ncalls + 1)

\* C1 (as claimed): in a session whose polls all fail, each of the first
\* max_errors calls to next() returns normally and call max_errors + 1
\* propagates the failure.
C1_SwallowThenPropagate ==
    \A x \in Sessions :
        (all_failed /\ ncalls >= 1) =>
            /\ (ncalls <= Obj(x).max_errors => Ret(x).kind = "return")
            /\ (ncalls = Obj(x).max_errors + 1 => Ret(x).kind = "raise")

\* C2: across every next() call error_count does not decrease and
\* done_streaming, once true, stays true.
C2_Monotone ==
    [][ /\ sync'.error_count >= sync.error_count
        /\ asyn'.error_count >= asyn.error_count
        /\ (sync.done_streaming => sync'.done_streaming)
        /\ (asyn.done_streaming => asyn'.done_streaming) ]_vars

\* C2 witness: a session that has absorbed a failure, then completed, and
\* was polled again after completion.
C2_Witness ==
    /\ sync.done_streaming /\ sync.error_count >= 1 /\ sync_ret.kind = "stop"
    /\ asyn.done_streaming /\ asyn.error_count >= 1 /\ asyn_ret.kind = "stop"

\* C3: next() on a session whose done_streaming is true signals
\* end-of-sequence, sends no request and leaves the session as it was.
C3_DoneNoExchange ==
    [][ \A x \in Sessions :
          (Obj(x).done_streaming /\ CallBegins(x)) =>
              /\ Ret(x)'.kind = "stop"
              /\ Pc(x)' = "idle"
              /\ NSent(x)' = NSent(x)
              /\ Obj(x)' = Obj(x) ]_vars

\* C3 witness: both sessions have polled, completed and been asked again.
C3_Witness ==
    /\ sync_ret.kind = "stop" /\ sync_nsent >= 1 /\ sync_nsent < ncalls
    /\ asyn_ret.kind = "stop" /\ asyn_nsent >= 1 /\ asyn_nsent < ncalls

\* C4 (as claimed): once a successful poll has taught the session a server
\* token, every later request carries exactly that first-learned token.
C4_FirstTokenSticky ==
    [][ \A x \in Sessions :
          (learned # None /\ NSent(x)' = NSent(x) + 1) =>
              /\ "server" \in DOMAIN Wire(x)'[1]
              /\ Wire(x)'[1]["server"] = learned ]_vars

\* C4 (amended): once a response has delivered a server token, every later
\* request carries the most recent non-None token a response delivered.
C4_LatestTokenSent ==
    [][ \A x \in Sessions :
          (latest # None /\ NSent(x)' = NSent(x) + 1) =>
              /\ "server" \in DOMAIN Wire(x)'[1]
              /\ Wire(x)'[1]["server"] = latest ]_vars

\* C4 witness: a request went out carrying a token other than the first one
\* learned.
C4_Witness ==
    /\ learned # None
    /\ \A x \in Sessions :
          /\ Wire(x) # <<>>
          /\ "server" \in DOMAIN Wire(x)[1]
          /\ Wire(x)[1]["server"] \notin {learned, "s0"}

\* C5 (as claimed): a poll that ends in failure changes error_count only,
\* and a swallowed failure returns the result the session held before.
C5_FailureChangesOnlyErrorCount ==
    [][ /\ sync'.error_count = sync.error_count + 1 =>
              /\ sync' = [sync EXCEPT !.error_count = @ + 1,
                                      !.request_params = sync'.request_params]
              /\ sync_ret'.kind = "return" => sync_ret'.value = sync.current_result
        /\ asyn'.error_count = asyn.error_count + 1 =>
              /\ asyn' = [asyn EXCEPT !.error_count = @ + 1,
                                      !.request_params = asyn'.request_params]
              /\ asyn_ret'.kind = "return" => asyn_ret'.value = asyn.current_result
      ]_vars

\* C6 (as claimed): a next() call that propagates a failure leaves
\* done_streaming false with error_count incremented past max_errors, and
\* the call after it polls again instead of signalling end-of-sequence.
C6_PropagationKeepsActive ==
    [][ \A x \in Sessions :
          /\ (Ret(x)'.kind = "raise" /\ ncalls' = ncalls + 1) =>
                /\ ~Obj(x)'.done_streaming
                /\ Obj(x)'.error_count = Obj(x).error_count + 1
                /\ Obj(x)'.error_count > Obj(x).max_errors
          /\ (Ret(x).kind = "raise" /\ CallBegins(x)) =>
                /\ Ret(x)'.kind # "stop"
                /\ Pc(x)' = "sleep" ]_vars

\* C7 (as claimed): the sessions made by create() and async_create() start
\* in the same state, max_errors included, and every next() ends alike.
C7_CreateIdentical ==
    mode = "create" => (sync = asyn /\ sync_ret = asyn_ret)

\* C7 (amended): the two sessions agree on every field but max_errors (0
\* for create(), 5 for async_create()), and every next() ends alike except
\* that a failed poll is propagated by the blocking session while the
\* cooperative one swallows it as long as its error_count is at most 5.
C7_CreateSameButBudget ==
    mode = "create" =>
        /\ sync.max_errors = SyncDefaultMaxErrors
        /\ asyn.max_errors = AsyncDefaultMaxErrors
        /\ [sync EXCEPT !.max_errors = asyn.max_errors] = asyn
        /\ sync_wire = asyn_wire
        /\ sync_nsent = asyn_nsent
        /\ IF last_failed /\ asyn.error_count <= AsyncDefaultMaxErrors
           THEN /\ sync_ret.kind = "raise"
                /\ asyn_ret = [kind |-> "return", value |-> asyn.current_result]
           ELSE sync_ret = asyn_ret

\* C7 witness: the same failed poll was propagated by the blocking session
\* and swallowed by the cooperative one.
C7_Witness ==
    /\ mode = "create"
    /\ sync_ret.kind = "raise"
    /\ asyn_ret.kind = "return"
    /\ sync.error_count = asyn.error_count

\* C8: the two classes, constructed with equal arguments and given the same
\* poll outcomes, hold equal fields, send equal payloads and end every
\* next() call alike.
C8_ClassesEquivalent ==
    mode = "direct" =>
        /\ sync = asyn
        /\ sync_ret = asyn_ret
        /\ sync_wire = asyn_wire
        /\ sync_nsent = asyn_nsent

\* C8 witness: equal-argument sessions that have swallowed a failure, learned
\* a token, sent it and stored a fragment.
C8_Witness ==
    /\ mode = "direct"
    /\ sync.error_count >= 1 /\ sync.error_count <= sync.max_errors
    /\ sync.server # None /\ sync.current_result # None
    /\ asyn_wire # <<>> /\ "server" \in DOMAIN asyn_wire[1]
    /\ asyn_wire[1]["server"] = "s2"

\* ------------------------------------------------- properties: generation node
Usable(a) == a # NoneItem /\ a.response # None

\* input item i as the inference queue answered it
Answered(i) ==
    IF input[i] = NoneItem \/ generated[i] = NoneItem THEN NoneItem
    ELSE [input[i] EXCEPT !.response = generated[i].response]

\* C9: a node with neither hook, once its pipeline has run to the end, has
\* yielded exactly the input items that are not None and were given a
\* response, in input order.
C9_NoHooksIdentity ==
    (preprocess = NoHook /\ postprocess = NoHook /\ pr_pc = "done") =>
        /\ Len(generated) = Len(input)
        /\ results = SelectSeq([i \in 1..Len(input) |-> Answered(i)], Usable)

\* C9 witness: a finished hook-free run that kept one item and dropped another.
C9_Witness ==
    /\ preprocess = NoHook /\ postprocess = NoHook /\ pr_pc = "done"
    /\ Len(input) = 2 /\ Len(results) = 1
    /\ \E i \in 1..2 : generated[i] # NoneItem /\ generated[i].response = None

\* C10 (as claimed): when preprocess returns None for an input, nothing is
\* emitted downstream for that input.
C10_NoneResultDrops ==
    (tp_call.called /\ tp_call.mod_a = NoneItem /\ tp_idx = tp_call.k) =>
        Len(transformed) = tp_call.n

\* C10 (amended): when preprocess returns a single PromptObject exactly that
\* object is emitted in place of the input; when it returns None the input
\* item itself is emitted unchanged.
C10_SingleResult ==
    (tp_call.called /\ ~isinstance_Generator(tp_call.mod_a)
                    /\ (tp_call.mod_a = NoneItem \/ isinstance_PromptObject(tp_call.mod_a))) =>
        /\ Len(transformed) > tp_call.n
        /\ transformed[tp_call.n + 1] =
              (IF tp_call.mod_a = NoneItem THEN tp_call.a ELSE tp_call.mod_a)
        /\ (tp_idx = tp_call.k => Len(transformed) = tp_call.n + 1)

\* C10 witness: preprocess returned None for a PromptObject and the
\* PromptObject went downstream.
C10_Witness ==
    /\ tp_call.called /\ tp_call.mod_a = NoneItem
    /\ isinstance_PromptObject(tp_call.a)
    /\ Len(transformed) = tp_call.n + 1
    /\ transformed[tp_call.n + 1] = tp_call.a

\* the non-None values of a sequence, in order
NonNone(items) == SelectSeq(items, LAMBDA x : x # NoneItem)

\* what one stage has emitted since its last hook call
EmittedSince(out, call) == SubSeq(out, call.n + 1, Len(out))

RECURSIVE GroupsUpTo(_)
\* concatenation of the non-None values preprocess generates for inputs 1..k
GroupsUpTo(k) ==
    IF k = 0 THEN <<>>
    ELSE GroupsUpTo(k - 1) \o NonNone(CallHook(preprocess, input[k]).items)

\* C11: when preprocess returns a generator for every input, the transform
\* output is the in-order concatenation of the non-None values generated for
\* each input, and the input items themselves are not emitted.
C11_GroupsContiguousInOrder ==
    (/\ preprocess # NoHook
     /\ tp_pc \in {"loop", "done"}
     /\ \A i \in 1..tp_idx : CallHook(preprocess, input[i]).type = "generator") =>
        transformed = GroupsUpTo(tp_idx)

\* C11 witness: two inputs, each expanded by a generator into two adjacent
\* items, the first group before the second.
C11_Witness ==
    /\ preprocess = "gen_items" /\ tp_pc = "done"
    /\ Len(input) = 2 /\ input[1] # input[2]
    /\ Len(transformed) = 4
    /\ transformed[2] = Derived(input[1], 20)
    /\ transformed[3] = Derived(input[2], 10)

\* C12 (as claimed): a hook result that is an eager list is flattened like a
\* generator: the stage does not fail and emits each non-None element.
C12_ListFlattened ==
    /\ (tp_call.called /\ tp_call.mod_a.type = "list") =>
          /\ tp_pc # "failed"
          /\ (tp_pc \in {"loop", "done"} /\ tp_idx = tp_call.k) =>
                EmittedSince(transformed, tp_call) = NonNone(tp_call.mod_a.items)
    /\ (pr_call.called /\ pr_call.mod_a.type = "list") =>
          /\ pr_pc # "failed"
          /\ (pr_pc \in {"loop", "done"} /\ pr_idx = pr_call.k) =>
                EmittedSince(results, pr_call) = NonNone(pr_call.mod_a.items)

\* C12 (amended): only a generator is flattened, each non-None element going
\* downstream as its own item; an eager list takes the single-value path,
\* where the assert stops the stage and nothing is emitted for that input.
C12_OnlyGeneratorFlattened ==
    /\ (tp_call.called /\ tp_call.mod_a.type = "list") =>
          (tp_pc = "failed" /\ Len(transformed) = tp_call.n)
    /\ (pr_call.called /\ pr_call.mod_a.type = "list") =>
          (pr_pc = "failed" /\ Len(results) = pr_call.n)
    /\ (tp_call.called /\ tp_call.mod_a.type = "generator"
          /\ tp_pc \in {"loop", "done"} /\ tp_idx = tp_call.k) =>
          EmittedSince(transformed, tp_call) = NonNone(tp_call.mod_a.items)
    /\ (pr_call.called /\ pr_call.mod_a.type = "generator"
          /\ pr_pc \in {"loop", "done"} /\ pr_idx = pr_call.k) =>
          EmittedSince(results, pr_call) = NonNone(pr_call.mod_a.items)

\* C12 witness: preprocess generators were flattened and a postprocess hook
\* that returned a list stopped process_results.
C12_Witness ==
    /\ tp_call.called /\ tp_call.mod_a.type = "generator"
    /\ Len(transformed) >= 2
    /\ pr_call.called /\ pr_call.mod_a.type = "list"
    /\ pr_pc = "failed" /\ Len(results) = pr_call.n

\* C13: an item process_results pulls that is None or has no response is
\* not passed to postprocess and nothing is emitted for it.
C13_UnusableDropped ==
    [][ (pr_idx' = pr_idx + 1 /\ ~Usable(generated[pr_idx + 1])) =>
            /\ results' = results
            /\ pr_call' = pr_call
            /\ pr_gen' = pr_gen
            /\ pr_pc' = pr_pc ]_vars

\* C13 witness: a node with a postprocess hook pulled a None item and an
\* item without response; the hook was not called and nothing came out.
C13_Witness ==
    /\ postprocess # NoHook
    /\ pr_idx = 2
    /\ generated[1] = NoneItem
    /\ generated[2] # NoneItem /\ generated[2].response = None
    /\ ~pr_call.called
    /\ results = <<>>

IsItem(x) == x = NoneItem \/ x.type = "PromptObject"

\* the value transform_prompt is about to type-check, if it is about to
NextChecked_tp ==
    IF tp_pc = "inner" /\ tp_gen # <<>> THEN <<Head(tp_gen)>>
    ELSE IF tp_pc = "loop" /\ tp_idx < Len(input) /\ preprocess # NoHook
              /\ CallHook(preprocess, input[tp_idx + 1]).type # "generator"
              /\ CallHook(preprocess, input[tp_idx + 1]) # NoneItem
         THEN <<CallHook(preprocess, input[tp_idx + 1])>>
    ELSE <<>>

\* C14: transform_prompt emits only None or PromptObject items; a hook value
\* that is neither makes the stage stop there, the value is not emitted,
\* and a stopped stage emits nothing more.
C14_OnlyItemsOrFatal ==
    [][ /\ \A i \in 1..Len(transformed') : IsItem(transformed'[i])
        /\ ((tp_idx' # tp_idx \/ tp_gen' # tp_gen)
              /\ NextChecked_tp # <<>> /\ ~IsItem(NextChecked_tp[1])) =>
              (tp_pc' = "failed" /\ transformed' = transformed)
        /\ tp_pc = "failed" => (tp_pc' = "failed" /\ transformed' = transformed)
      ]_vars

\* C14 witness: a generator produced a PromptObject and then a string; the
\* PromptObject went out and the stage stopped at the string.
C14_Witness ==
    /\ preprocess = "gen_bad"
    /\ tp_pc = "failed"
    /\ transformed = <<Derived(input[1], 10)>>
    /\ tp_gen = <<>>

\* C19: a stage pulls an input item only while its consumer awaits an output
\* and only after everything the previous input item expanded to has been
\* yielded or skipped.
C19_LazyOneAtATime ==
    [][ /\ tp_idx' # tp_idx => (tp_req /\ tp_pc = "loop" /\ tp_gen = <<>>)
        /\ pr_idx' # pr_idx => (pr_req /\ pr_pc = "loop" /\ pr_gen = <<>>)
        /\ transformed' # transformed => (tp_req /\ ~tp_req')
        /\ results' # results => (pr_req /\ ~pr_req') ]_vars

\* C19 witness: transform_prompt handed out the whole expansion of input 1,
\* pulled input 2 on a later request and is suspended at a yield, while
\* process_results has pulled its first item.
C19_Witness ==
    /\ preprocess = "gen_items"
    /\ tp_idx = 2 /\ Len(transformed) = 3 /\ ~tp_req
    /\ pr_idx = 1 /\ tp_gen # <<>>

\* ------------------------------------------------- properties: request maps
\* C15: StreamingCompletion.make_llm_req_map always writes model_name,
\* prompt, output_type and max_tokens with the argument's value, None
\* included, and writes max_new_tokens and server exactly when the argument
\* is not None; no key is present with a value the argument did not have.
C15_StreamingRequestKeys ==
    req_streaming # <<>> =>
        LET d == req_streaming[1] IN
        /\ DOMAIN d \subseteq {"model_name", "prompt", "output_type", "max_tokens",
                               "max_new_tokens", "server"}
        /\ \A k \in {"model_name", "prompt", "output_type", "max_tokens"} :
              k \in DOMAIN d /\ d[k] = req_args[k]
        /\ \A k \in {"max_new_tokens", "server"} :
              /\ k \in DOMAIN d <=> req_args[k] # None
              /\ k \in DOMAIN d => (d[k] = req_args[k] /\ d[k] # None)

\* C15 witness: a map built from max_new_tokens = 0, no server and no
\* max_tokens: max_new_tokens is there, server is not, max_tokens is None.
C15_Witness ==
    /\ req_streaming # <<>>
    /\ req_args.max_new_tokens = "0" /\ req_args.server = None
    /\ req_args.max_tokens = None
    /\ DOMAIN req_streaming[1] =
          {"model_name", "prompt", "output_type", "max_tokens", "max_new_tokens"}

\* C16 (as claimed): GenerationNode.make_llm_req_map writes model_config
\* exactly when the node has a model configuration object, and then the
\* request is tagged type = "completion".
C16_KeyIffConfigured ==
    req_node # <<>> =>
        LET d == req_node[1] IN
        /\ "model_config" \in DOMAIN d <=> req_args.model_config # None
        /\ req_args.model_config # None =>
              /\ "type" \in DOMAIN d
              /\ d["type"] = "completion"

\* C16 (amended): GenerationNode.make_llm_req_map writes model_config, as
\* the serialized configuration, exactly when the node's model configuration
\* is true in a truth test, so neither for None nor for an empty
\* configuration; every request is tagged type = "completion".
C16_NodeRequestModelConfig ==
    req_node # <<>> =>
        LET d == req_node[1] IN
        /\ "model_config" \in DOMAIN d <=>
              req_args.model_config \notin {None, "config_empty"}
        /\ "model_config" \in DOMAIN d =>
              d["model_config"] = as_dict(req_args.model_config)
        /\ "type" \in DOMAIN d
        /\ d["type"] = "completion"

\* C16 witness: a node whose model configuration is empty built a tagged
\* request without the model_config key.
C16_Witness ==
    /\ req_node # <<>>
    /\ req_args.model_config = "config_empty"
    /\ "model_config" \notin DOMAIN req_node[1]
    /\ req_node[1]["type"] = "completion"

\* ------------------------------------------------- properties: hook symmetry
\* C17: with the same hook as preprocess and as postprocess, and the same
\* items that are not None and have a response, process_results has emitted
\* what transform_prompt has emitted whenever both have dealt with the same
\* number of items, and one stops with a fatal error exactly when the other
\* does.
C17_PostprocessLikePreprocess ==
    (tp_idx = pr_idx /\ tp_pc # "inner" /\ pr_pc # "inner") =>
        /\ results = transformed
        /\ (pr_pc = "failed") <=> (tp_pc = "failed")

\* C17 witness: both stages expanded the same two items by the same
\* generator hook and emitted the same four items.
C17_Witness ==
    /\ preprocess = "gen_items" /\ postprocess = "gen_items"
    /\ tp_pc = "done" /\ pr_pc = "done"
    /\ Len(input) = 2
    /\ Len(results) = 4 /\ results = transformed

\* ------------------------------------------------- properties: shared session
\* task t's exchange begins in this step
ExchangeBegins(t) == task_pc[t] = "sleep" /\ task_pc'[t] = "flight"

\* C18 (as claimed): whatever tasks call next() on one session, an exchange
\* begins only when no other exchange is in flight and done_streaming is
\* false.
C18_PollsSequential ==
    [][ \A t \in Tasks :
          ExchangeBegins(t) =>
              /\ \A u \in Tasks \ {t} : task_pc[u] # "flight"
              /\ ~Obj(task_obj).done_streaming ]_vars

\* C18 (amended): as long as no next() call has been made while another was
\* still running, an exchange begins only when no other call is under way
\* and done_streaming is false.
C18_SequentialWhenNotShared ==
    [][ \A t \in Tasks :
          (ExchangeBegins(t) /\ ~overlapped) =>
              /\ \A u \in Tasks \ {t} : task_pc[u] = "idle"
              /\ ~Obj(task_obj).done_streaming ]_vars

\* C18 witness: calls that never overlapped, a second exchange in flight.
C18_Witness ==
    /\ ~overlapped
    /\ task_obj = "asyn"
    /\ asyn_nsent = 2 /\ ncalls = 2
    /\ \E t \in Tasks : task_pc[t] = "flight"

\* ------------------------------------------------- properties: session frame
\* C20 (as claimed): next() never changes polling_interval or max_errors,
\* changes no key of the request payload other than server, and the payload
\* of a session made by create() or async_create() has no server key until
\* some poll has succeeded.
C20_PayloadFrame ==
    [][ \A x \in Sessions :
          /\ Obj(x)'.polling_interval = Obj(x).polling_interval
          /\ Obj(x)'.max_errors = Obj(x).max_errors
          /\ DOMAIN Obj(x)'.request_params \subseteq
                DOMAIN Obj(x).request_params \cup {"server"}
          /\ \A k \in DOMAIN Obj(x).request_params \ {"server"} :
                /\ k \in DOMAIN Obj(x)'.request_params
                /\ Obj(x)'.request_params[k] = Obj(x).request_params[k]
          /\ (mode = "create" /\ "server" \in DOMAIN Obj(x)'.request_params) =>
                ~all_failed ]_vars

\* ------------------------------------------------- properties: consumer loop
LoopStopped == Ret(lp_target).kind \in {"stop", "raise"}

\* C21 (as claimed): a consumer's loop over a session ends in two ways only:
\* with end-of-sequence, after a successful poll has reported completion, or
\* with a propagated failure, once error_count exceeds max_errors.
C21_StopsOnlyTwoWays ==
    /\ Ret(lp_target).kind = "stop" => lp_completed
    /\ Ret(lp_target).kind = "raise" =>
          Obj(lp_target).error_count > Obj(lp_target).max_errors

\* C21, the liveness part, under SpecLoopFair: if the server at some time
\* reports completion on a successful poll or has failed more than
\* max_errors polls, the loop eventually stops.
C21_FairLoopStops ==
    (<>(lp_completed \/ lp_nfailed > Obj(lp_target).max_errors)) => <>LoopStopped

\* C21, the last part: a successful poll that does not report completion
\* returns a value and leaves the session active, so the loop goes on.
C21_KeepsPolling ==
    lp_status = "more" =>
        /\ Ret(lp_target).kind = "return"
        /\ ~Obj(lp_target).done_streaming
        /\ LoopRunning

\* what holds when the last call made a poll and the poll succeeded
C22_PollYieldsFragment ==
    (lp_status # None /\ Ret(lp_target).kind # "stop") =>
        /\ Ret(lp_target) = [kind |-> "return", value |-> lp_fragment]
        /\ Obj(lp_target).current_result = lp_fragment
        /\ Obj(lp_target).done_streaming = (lp_status = "done")

\* what holds in a session none of whose polls has failed
C22_NothingLost ==
    lp_nfailed = 0 =>
        /\ lp_nyield + (IF Pc(lp_target) = "flight" THEN 1 ELSE 0) = NSent(lp_target)
        /\ lp_nyield >= 1 => lp_last = lp_fragment
        /\ Ret(lp_target).kind = "stop" => lp_status = "done"

\* C22: the successful poll whose response reports completion sets
\* done_streaming, stores data[0] as current_result and returns it; the call
\* after it, and no earlier call, signals end-of-sequence; a session with no
\* failed poll yields one value per poll, the completing poll included, and
\* the last value it yields is the fragment of the completing response.
C22_CompletingPollYields ==
    [][ /\ C22_PollYieldsFragment'
        /\ C22_NothingLost'
        /\ (lp_status = "done" /\ CallBegins(lp_target)) =>
              (Ret(lp_target)'.kind = "stop" /\ lp_nyield' = lp_nyield) ]_vars

\* C22 witness: a session that answered two polls with fragments, the second
\* reporting completion, and then signalled end-of-sequence.
C22_Witness ==
    /\ Ret(lp_target).kind = "stop"
    /\ lp_nfailed = 0
    /\ NSent(lp_target) = 2
    /\ lp_nyield = 2
    /\ lp_last = "d2"
    /\ ncalls = 3

\* C23: a failed poll is swallowed exactly when the number of polls of the
\* session that have failed so far, this one included, is at most max_errors,
\* whatever successful polls lie in between; error_count is that number; a
\* failed poll made after a failure was propagated is propagated too.
C23_BudgetCumulative ==
    /\ Obj(lp_target).error_count = lp_nfailed
    /\ last_failed =>
          /\ Ret(lp_target).kind = "return" <=>
                lp_nfailed <= Obj(lp_target).max_errors
          /\ Ret(lp_target).kind = "raise" <=>
                lp_nfailed > Obj(lp_target).max_errors
    /\ (last_failed /\ lp_raised) => Ret(lp_target).kind = "raise"

\* C23 witness: a failure was propagated, the consumer iterated again, a
\* poll succeeded, and the poll after it failed and was propagated.
C23_Witness ==
    /\ last_failed
    /\ lp_raised
    /\ lp_between
    /\ lp_nyield >= 1
    /\ Ret(lp_target).kind = "raise"
====
